---- MODULE Spec2Model ----
(***************************************************************************)
(* A model of assembly-downloader (src/src/main.rs): main reads accession  *)
(* records, deduplicates them, and runs process_accession for each, three  *)
(* at a time; process_accession resolves the accession against a remote    *)
(* directory listing (fetch_full_filename) and then fetches three files    *)
(* with download_with_retry.                                               *)
(*                                                                         *)
(* Strings are sequences of tokens.  Accessions and listing names are      *)
(* sequences of one-character tokens, since the code cuts them up          *)
(* character by character; the literals the code only concatenates (the    *)
(* archive root, the file suffixes, the pieces of the error messages) are  *)
(* single tokens.  A token may also stand for a run of characters that the *)
(* code never cuts: the db part of an accession may hold the token          *)
(* "retries: ", the text main looks for in an error message.                *)
(*                                                                         *)
(* The futures that join_all drives are polled by the one task that runs   *)
(* main, so a pipeline runs without interruption from one .await to the    *)
(* next: every action of a pipeline is the code between two awaits.        *)
(***************************************************************************)
EXTENDS Naturals, Sequences, FiniteSets

\* ------------------------------------------------------------------ bounds

\* The input is one of the first MaxInput+1 prefixes of Records.
MaxInput == 10
\* --retry-times ranges over 0..MaxRetry.
MaxRetry == 3
\* The iteration order of the HashSet is one of MaxSeed orders.
MaxSeed == 2
\* A directory page of SpecResolve holds at most MaxListing entries.
MaxListing == 3

\* ----------------------------------------------------------------- strings

\* str::trim (main.rs:14, 187, 231): leading and trailing white space removed.
RECURSIVE TrimStart(_)
TrimStart(s) ==
    IF s /= <<>> /\ Head(s) = " " THEN TrimStart(Tail(s)) ELSE s

RECURSIVE TrimEnd(_)
TrimEnd(s) ==
    IF s /= <<>> /\ s[Len(s)] = " " THEN TrimEnd(SubSeq(s, 1, Len(s) - 1)) ELSE s

trim(s) == TrimEnd(TrimStart(s))

\* The least index of token c in s, 0 when s does not hold c.
RECURSIVE IndexFrom(_, _, _)
IndexFrom(s, c, i) ==
    IF i > Len(s) THEN 0
    ELSE IF s[i] = c THEN i
    ELSE IndexFrom(s, c, i + 1)

\* str::split_once (main.rs:15, 17): the parts before and after the first c.
split_once(s, c) ==
    LET i == IndexFrom(s, c, 1)
    IN  IF i = 0 THEN [found |-> FALSE, before |-> s, after |-> <<>>]
        ELSE [found |-> TRUE,
              before |-> SubSeq(s, 1, i - 1),
              after |-> SubSeq(s, i + 1, Len(s))]

\* str::split (main.rs:50, 230): the parts of s between the occurrences of c.
RECURSIVE split(_, _)
split(s, c) ==
    LET p == split_once(s, c)
    IN  IF p.found THEN <<p.before>> \o split(p.after, c) ELSE <<s>>

\* str::starts_with (main.rs:48, 52).
starts_with(s, p) ==
    Len(p) <= Len(s) /\ SubSeq(s, 1, Len(p)) = p

\* chunks as chunks_exact would cut: a short last piece is dropped.
RECURSIVE chunks_exact(_, _)
chunks_exact(s, n) ==
    IF Len(s) < n THEN <<>>
    ELSE <<SubSeq(s, 1, n)>> \o chunks_exact(SubSeq(s, n + 1, Len(s)), n)

\* slice::chunks (main.rs:21, 202): s cut left to right into pieces of n, the last
\* one possibly shorter.
RECURSIVE chunks(_, _)
chunks(s, n) ==
    IF s = <<>> THEN <<>>
    ELSE IF Len(s) <= n THEN <<s>>
    ELSE <<SubSeq(s, 1, n)>> \o chunks(SubSeq(s, n + 1, Len(s)), n)

\* slice::join (main.rs:24).
RECURSIVE join(_, _)
join(parts, sep) ==
    IF parts = <<>> THEN <<>>
    ELSE IF Len(parts) = 1 THEN parts[1]
    ELSE parts[1] \o sep \o join(Tail(parts), sep)

\* --------------------------------------------------- fetch_full_filename

ArchiveRoot == "https://ftp.ncbi.nlm.nih.gov/genomes/all/"

\* main.rs:13-17: db, and the number with the version cut off.
ParseAccession(accession) ==
    LET p == split_once(trim(accession), "_")
        q == split_once(p.after, ".")
    IN  [ok |-> p.found, db |-> p.before, number |-> q.before]

\* The number cut into groups of 2.
number_path_pairs(number) == join(chunks(number, 2), <<"/">>)

\* main.rs:18-24.
number_path(number) == join(chunks(number, 3), <<"/">>)

\* main.rs:26-29.
base_url(db, number) == <<ArchiveRoot>> \o db \o <<"/">> \o number_path(number)

\* main.rs:43-47.
clean_name(name) ==
    IF name /= <<>> /\ name[Len(name)] = "/"
    THEN SubSeq(name, 1, Len(name) - 1)
    ELSE name

\* main.rs:48-52: the test one listing entry has to pass.
MatchesEntry(name, db, number) ==
    LET fields == split(clean_name(name), "_")
    IN  /\ starts_with(clean_name(name), db)
        /\ Len(fields) >= 2
        /\ starts_with(fields[2], number)

\* main.rs:40-56: the index of the first entry of the listing that matches, 0 when
\* none does.  A listing is the sequence of the href values the regex captures.
RECURSIVE FirstMatchFrom(_, _, _, _)
FirstMatchFrom(listing, db, number, i) ==
    IF i > Len(listing) THEN 0
    ELSE IF MatchesEntry(listing[i], db, number) THEN i
    ELSE FirstMatchFrom(listing, db, number, i + 1)

\* The index of the last entry of the listing that matches, 0 when none does.
LastMatch(listing, db, number) ==
    LET S == { i \in DOMAIN listing : MatchesEntry(listing[i], db, number) }
    IN  IF S = {} THEN 0 ELSE CHOOSE i \in S : \A j \in S : j <= i

FirstMatch(listing, db, number) == FirstMatchFrom(listing, db, number, 1)

\* ------------------------------------------------------------ environment

\* The records the CSV reader yields (main.rs:185), in file order: a repeated
\* accession, one that differs only by surrounding blanks, a blank record,
\* accessions without '_', and a number that is not a multiple of 3 long.
Records ==
    << <<"A", "_", "1">>,
       <<"A", "_", "1">>,
       <<"B", "_", "2">>,
       <<" ", "A", "_", "1", " ">>,
       <<" ">>,
       <<"X">>,
       <<"C", "_", "1", "2", "3", "4", "5", ".", "1">>,
       <<"Y">>,
       <<"Z">>,
       <<"W">>,
       <<"V">> >>

Min(a, b) == IF a < b THEN a ELSE b

InputLists == { SubSeq(Records, 1, n) : n \in 0..Min(MaxInput, Len(Records)) }

\* Records whose first one has a db part that holds the text "retries: ".
MarkerRecords ==
    << <<"retries: ", "_", "1">>,
       <<"B", "_", "2">>,
       <<"X">> >>

MarkerInputs == { SubSeq(MarkerRecords, 1, n) : n \in 1..Len(MarkerRecords) }

\* Records for the runs that look at resolution alone: accessions with and
\* without a version, with blanks around, with an empty db or number, and with
\* numbers of 1 to 7 characters.
ResolveRecords ==
    << <<"A", "_", "1", ".", "2">>,
       <<" ", "A", "_", "1", ".", "9", " ">>,
       <<"A", "B", "_", "9">>,
       <<"A", "_">>,
       <<"_", "1">>,
       <<"Z", "_", "1">>,
       <<"N", "_", "1", "2">>,
       <<"N", "_", "1", "2", "3">>,
       <<"N", "_", "1", "2", "3", "4">>,
       <<"N", "_", "1", "2", "3", "4", "5">>,
       <<"N", "_", "1", "2", "3", "4", "5", "6">>,
       <<"N", "_", "1", "2", "3", "4", "5", "6", "7", ".", "4">> >>

ResolveInputs ==
    { <<ResolveRecords[n]>> : n \in DOMAIN ResolveRecords }
        \cup { <<Records[1]>>, <<Records[3]>> }

\* The href values the pages of SpecResolve are made of: the parent link, names
\* with one, two and no '/' at the end, a name without '_', and names whose db or
\* number goes on after that of A_1.
Entries ==
    { <<".", ".", "/">>,
      <<"A", "B", "_", "9", ".", "1", "_", "x", "/">>,
      <<"A", "_", "1", ".", "1", "_", "v", "1", "/">>,
      <<"A", "_", "1", ".", "2", "_", "v", "2", "/", "/">>,
      <<"A", "_", "1", "2", ".", "1", "_", "w">>,
      <<"B", "_", "2", ".", "1", "_", "b">>,
      <<"A">> }

ResolveListings == UNION { [1..n -> Entries] : n \in 0..MaxListing }

\* A directory page of the archive, as the href values of its anchors in page order.
FullListing ==
    << <<".", ".", "/">>,
       <<"A", "B", "_", "9", ".", "1", "_", "x", "/">>,
       <<"A", "_", "1", ".", "1", "_", "v", "1", "/">>,
       <<"A", "_", "1", ".", "2", "_", "v", "2", "/">>,
       <<"B", "_", "2", ".", "1", "_", "b">>,
       <<"C", "_", "1", "2", "3", "4", "5", ".", "1", "_", "c", "/">>,
       <<"retries: ", "_", "1", ".", "1", "_", "m", "/">> >>

ParentOnlyListing == << <<".", ".", "/">> >>

Listings == {FullListing, ParentOnlyListing}

\* What a GET can come back with: a transport error, or a response with a status
\* and a body still to be read.
NoResponse == [kind |-> "none", status |-> 0, body |-> <<>>]
TransportError == [kind |-> "error", status |-> 0, body |-> <<>>]
Http(status, body) == [kind |-> "http", status |-> status, body |-> body]

ErrorPage == <<"<html>404</html>">>

\* The bytes the archive serves under url.
Content(url) == <<"bytes of ">> \o url

ListingResponses ==
    {TransportError, Http(404, ErrorPage)} \cup { Http(200, l) : l \in Listings }

ArtifactResponses(url) ==
    {TransportError, Http(404, ErrorPage), Http(200, Content(url))}

ResolveResponses ==
    {TransportError, Http(404, ErrorPage)} \cup { Http(200, l) : l \in ResolveListings }

\* fs::write (main.rs:79) creates or truncates the file and then writes the buffer:
\* it succeeds, fails before the file is touched, or fails after truncating it.
WriteOutcomes == {"ok", "create_failed", "partial"}

\* StatusCode::is_success (main.rs:31, 74).
is_success(status) == status >= 200 /\ status < 300

\* ------------------------------------------------------------------ errors

Digits == <<"0", "1", "2", "3", "4", "5", "6", "7", "8", "9">>

\* Display of an unsigned integer (main.rs:90-91).
RECURSIVE Display(_)
Display(n) ==
    IF n < 10 THEN <<Digits[n + 1]>>
    ELSE Display(n \div 10) \o <<Digits[(n % 10) + 1]>>

\* Display of a StatusCode (main.rs:33-34).
StatusText(status) ==
    Display(status) \o (IF status = 404 THEN <<" Not Found">> ELSE <<" OK">>)

\* The outcome of a pipeline: still running, Ok, or an anyhow::Error, which is the
\* text Display gives (msg); kind names the place that raised it.
Pending == [state |-> "pending", kind |-> "", msg |-> <<>>]
Success == [state |-> "ok", kind |-> "", msg |-> <<>>]
Err(kind, msg) == [state |-> "err", kind |-> kind, msg |-> msg]

\* main.rs:16.
InvalidAccession == Err("invalid", <<"Invalid accession format">>)
\* Display of the Url a request was built with (main.rs:30): a blank of the path
\* is percent-encoded.
UrlText(url) ==
    [i \in DOMAIN url |-> IF url[i] = "retries: " THEN "retries:%20" ELSE url[i]]

\* main.rs:30, the ? on send(): a reqwest::Error, which names the Url.
SendError(url) ==
    Err("send", <<"error sending request for url (">> \o UrlText(url) \o <<")">>)
\* main.rs:32-35.
DirectoryUnavailable(status) ==
    Err("directory", <<"Failed to open genome directory: HTTP ">> \o StatusText(status))
\* main.rs:37, the ? on text(): a reqwest::Error.
DecodeError == Err("decode", <<"error decoding response body">>)
\* main.rs:58-61.
NoMatch(accession) ==
    Err("nomatch", <<"No matching genome found for accession ">> \o accession)
\* main.rs:78: the context is what Display shows.
ReadBytesError == Err("read", <<"Failed to read bytes from response">>)
\* main.rs:79.
WriteFileError == Err("io", <<"Failed to write data to file">>)
\* main.rs:89-93.
RetriesExhausted(retry_count, url) ==
    Err("exhausted",
        <<"Failed to download file after ">> \o Display(retry_count)
            \o <<" ", "retries: ">> \o url)

ResolutionKinds == {"invalid", "send", "directory", "decode", "nomatch"}

\* ------------------------------------------------------------------- state

VARIABLES
    input,           \* the records of the input CSV, in file order
    retry_times,     \* --retry-times
    mpc,             \* where main is: "start", "loop", "join", "done"
    accessions,      \* main's HashSet of trimmed, non-blank accessions
    accessions_vec,  \* the HashSet in iteration order
    windows,         \* the chunks of accessions_vec the loop has taken so far
    futures,         \* the pipelines of the current chunk, in chunk order
    files,           \* the download directory: path |-> bytes
    failed_writer,   \* the rows written to the failure report
    diagnostics      \* main's per-accession lines on stdout and stderr

vars ==
    <<input, retry_times, mpc, accessions, accessions_vec, windows, futures,
      files, failed_writer, diagnostics>>

\* -------------------------------------------------------- process_accession

\* main.rs:106-107.
suffixes == <<"_genomic.fna.gz", "_protein.faa.gz">>
standalone == <<"md5checksums.txt">>
NumArtifacts == Len(suffixes) + Len(standalone)

\* --location, at its default (main.rs:162).
download_path == "."

\* main.rs:110 and 118: the URL of the art-th file.
ArtifactUrl(dir_url, full_name, art) ==
    IF art <= Len(suffixes)
    THEN dir_url \o <<"/">> \o full_name \o <<suffixes[art]>>
    ELSE dir_url \o <<"/">> \o <<standalone[art - Len(suffixes)]>>

\* The file names without the accession in front.
FileNameShared(accession, art) ==
    IF art <= Len(suffixes)
    THEN <<suffixes[art]>>
    ELSE <<"_">> \o <<standalone[art - Len(suffixes)]>>

\* main.rs:111 and 119.
FileName(accession, art) ==
    IF art <= Len(suffixes)
    THEN accession \o <<suffixes[art]>>
    ELSE accession \o <<"_">> \o <<standalone[art - Len(suffixes)]>>

\* main.rs:112 and 120: location.join(file_name), for a relative file name.
PathOf(accession, art) == <<download_path, "/">> \o FileName(accession, art)

UrlOf(f) == ArtifactUrl(f.dir_url, f.full_name, f.art)

\* A future that has returned: only its output is left (main.rs:216-217).
Returned(f, result) ==
    [accession |-> f.accession, pc |-> "done", result |-> result,
     retry_count |-> f.retry_count, dir_url |-> <<>>, full_name |-> <<>>,
     art |-> 0, attempts |-> 0, resp |-> NoResponse,
     lget |-> 0, nget |-> 0, nfail |-> 0]

\* A pipeline that has returned e (the ? operators of main.rs:104, 113, 121).
Fail(f, e) == Returned(f, e)

\* The loop head of a pipeline that ignores the error of a fetch: when no attempt
\* is left it goes on to the next file.
LoopHeadSkip(f) ==
    IF f.attempts > 0
    THEN [f EXCEPT !.pc = "get_send", !.nget = @ + 1, !.resp = NoResponse]
    ELSE IF f.art < NumArtifacts
    THEN [f EXCEPT !.art = @ + 1, !.attempts = f.retry_count, !.pc = "get_send",
                   !.nget = 1, !.nfail = 0, !.resp = NoResponse]
    ELSE Returned(f, Success)

\* main.rs:71-72 and 89-93: the head of the retry loop, which sends the next GET
\* while attempts are left and gives up otherwise.
LoopHead(f) ==
    IF f.attempts > 0
    THEN [f EXCEPT !.pc = "get_send", !.nget = @ + 1, !.resp = NoResponse]
    ELSE Fail(f, RetriesExhausted(f.retry_count, UrlOf(f)))

\* retry_count read as the number of retries after a first attempt.
StartFetchExtraAttempt(f, art) ==
    LoopHead([f EXCEPT !.art = art, !.attempts = f.retry_count + 1,
                       !.nget = 0, !.nfail = 0])

\* main.rs:110-113, 118-121 and 70: download_with_retry is entered for file art.
StartFetch(f, art) ==
    LoopHead([f EXCEPT !.art = art, !.attempts = f.retry_count,
                       !.nget = 0, !.nfail = 0])

\* The first poll without the test of main.rs:15-16: the directory GET is sent for
\* whatever split_once leaves.
StartPipelineUnchecked(accession, retry) ==
    [accession |-> accession, pc |-> "list_send", result |-> Pending,
     retry_count |-> retry, dir_url |-> <<>>, full_name |-> <<>>,
     art |-> 0, attempts |-> 0, resp |-> NoResponse,
     lget |-> 1, nget |-> 0, nfail |-> 0]

\* main.rs:203-220, 102-104 and 12-30: the first poll of the future of one
\* accession, up to the send() of the directory GET.
StartPipeline(accession, retry) ==
    LET f == [accession |-> accession, pc |-> "list_send", result |-> Pending,
              retry_count |-> retry, dir_url |-> <<>>, full_name |-> <<>>,
              art |-> 0, attempts |-> 0, resp |-> NoResponse,
              lget |-> 0, nget |-> 0, nfail |-> 0]
    IN  IF ParseAccession(accession).ok
        THEN [f EXCEPT !.lget = 1]
        ELSE Fail(f, InvalidAccession)

ListingUrl(f) ==
    LET p == ParseAccession(f.accession) IN base_url(p.db, p.number)

\* The directory GET sent again after a failure, as the file GETs are.
ListingRespondedRetry(f, r) ==
    IF r.kind = "error" \/ ~is_success(r.status)
    THEN IF f.lget < f.retry_count
         THEN [f EXCEPT !.lget = @ + 1]
         ELSE Fail(f, DirectoryUnavailable(r.status))
    ELSE [f EXCEPT !.pc = "list_text", !.resp = r]

\* main.rs:30-37: the directory GET has come back with r.
ListingResponded(f, r) ==
    IF r.kind = "error" THEN Fail(f, SendError(ListingUrl(f)))
    ELSE IF ~is_success(r.status) THEN Fail(f, DirectoryUnavailable(r.status))
    ELSE [f EXCEPT !.pc = "list_text", !.resp = r]

\* main.rs:37-61 and 104-113: the page has been read (or not); the first matching
\* entry is taken and the first file is asked for.
ListingRead(f, readok) ==
    LET p == ParseAccession(f.accession)
        i == FirstMatch(f.resp.body, p.db, p.number)
        name == clean_name(f.resp.body[i])
    IN  IF ~readok THEN Fail(f, DecodeError)
        ELSE IF i = 0 THEN Fail(f, NoMatch(f.accession))
        ELSE StartFetch([f EXCEPT !.dir_url = base_url(p.db, p.number) \o <<"/">> \o name,
                                  !.full_name = name,
                                  !.resp = NoResponse], 1)

\* main.rs:72-86: a GET of the current file has come back with r.
GetResponded(f, r) ==
    IF r.kind = "http" /\ is_success(r.status)
    THEN [f EXCEPT !.pc = "get_bytes", !.resp = r]
    ELSE LoopHead([f EXCEPT !.attempts = @ - 1, !.nfail = @ + 1])

\* The loop without its return: after the write the next GET is sent.
BodyReadNoReturn(f, readok, written) ==
    IF ~readok THEN Fail(f, ReadBytesError)
    ELSE IF written /= "ok" THEN Fail(f, WriteFileError)
    ELSE LoopHead(f)

\* A failed write counted as a failed attempt: the loop goes on.
BodyReadRetryWrite(f, readok, written) ==
    IF ~readok THEN Fail(f, ReadBytesError)
    ELSE IF written /= "ok"
    THEN LoopHead([f EXCEPT !.attempts = @ - 1, !.nfail = @ + 1])
    ELSE IF f.art < NumArtifacts THEN StartFetch(f, f.art + 1)
    ELSE Returned(f, Success)

\* A failed read of the body counted as a failed attempt: the loop goes on.
BodyReadRetryRead(f, readok, written) ==
    IF ~readok THEN LoopHead([f EXCEPT !.attempts = @ - 1, !.nfail = @ + 1])
    ELSE IF written /= "ok" THEN Fail(f, WriteFileError)
    ELSE IF f.art < NumArtifacts THEN StartFetch(f, f.art + 1)
    ELSE Returned(f, Success)

\* main.rs:75-80 and 109-124: the body has been read (or not) and written (or
\* not); then comes the next file, or the end of the pipeline.
BodyRead(f, readok, written) ==
    IF ~readok THEN Fail(f, ReadBytesError)
    ELSE IF written /= "ok" THEN Fail(f, WriteFileError)
    ELSE IF f.art < NumArtifacts THEN StartFetch(f, f.art + 1)
    ELSE Returned(f, Success)

\* A write that opens the file for appending: the bytes are put after those that
\* the file holds.
fs_write_append(fs, path, data, written) ==
    IF written = "create_failed" THEN fs
    ELSE [q \in DOMAIN fs \cup {path} |->
            IF q = path
            THEN (IF q \in DOMAIN fs THEN fs[q] ELSE <<>>)
                    \o (IF written = "ok" THEN data ELSE <<>>)
            ELSE fs[q]]

\* main.rs:79: what fs::write(path, data) leaves in the directory.
fs_write(fs, path, data, written) ==
    IF written = "create_failed" THEN fs
    ELSE [q \in DOMAIN fs \cup {path} |->
            IF q = path THEN (IF written = "ok" THEN data ELSE <<>>) ELSE fs[q]]

\* -------------------------------------------------------------------- main

\* A chunk one wider.
ChunkWidthWider == 3 + 1

\* main.rs:202: the width of a chunk.
ChunkWidth == 3

\* The records kept as they are read, the trimmed copy used for the blank test only.
ReadAccessionsUntrimmed(records) ==
    { records[i] : i \in { j \in DOMAIN records : trim(records[j]) /= <<>> } }

\* main.rs:182-191: the records trimmed, the blank ones dropped, collected in a set.
ReadAccessions(records) ==
    { trim(records[i]) : i \in { j \in DOMAIN records : trim(records[j]) /= <<>> } }

\* The place among the records of the first record that is a or trims to a, which
\* stands for the hash of a.
Rank(a) ==
    LET all == Records \o MarkerRecords \o ResolveRecords
    IN  CHOOSE i \in DOMAIN all :
            /\ all[i] = a \/ trim(all[i]) = a
            /\ \A j \in 1..(i - 1) : all[j] /= a /\ trim(all[j]) /= a

HashKey(a, seed) == (Rank(a) * seed) % 13

\* main.rs:199: the set in the iteration order that the hasher keyed with seed gives.
RECURSIVE HashOrder(_, _)
HashOrder(S, seed) ==
    IF S = {} THEN <<>>
    ELSE LET a == CHOOSE x \in S : \A y \in S : HashKey(x, seed) <= HashKey(y, seed)
         IN  <<a>> \o HashOrder(S \ {a}, seed)

\* The rows with the rows that carry no URL left out.
RECURSIVE FailureRowsWithUrl(_)
FailureRowsWithUrl(fs) ==
    IF fs = <<>> THEN <<>>
    ELSE (IF Head(fs).result.state = "err" /\ Head(fs).result.kind = "exhausted"
          THEN << <<Head(fs).accession, Head(fs).result.msg>> >>
          ELSE <<>>) \o FailureRowsWithUrl(Tail(fs))

\* main.rs:229-231: the text after the marker, or the placeholder.
failed_url(e) ==
    LET parts == split(e.msg, "retries: ")
    IN  trim(IF Len(parts) >= 2 THEN parts[2] ELSE <<"Unknown URL">>)

\* main.rs:225-240: the rows the results add to the failure report, in order.
RECURSIVE FailureRows(_)
FailureRows(fs) ==
    IF fs = <<>> THEN <<>>
    ELSE (IF Head(fs).result.state = "err"
          THEN << <<Head(fs).accession, failed_url(Head(fs).result)>> >>
          ELSE <<>>) \o FailureRows(Tail(fs))

\* main.rs:227 and 234-237: the line each result prints, in order; a line is kept
\* as its stream and its accession.
RECURSIVE ResultLines(_)
ResultLines(fs) ==
    IF fs = <<>> THEN <<>>
    ELSE (IF Head(fs).result.state = "ok"
          THEN << [stream |-> "stdout", accession |-> Head(fs).accession] >>
          ELSE IF Head(fs).result.state = "err"
          THEN << [stream |-> "stderr", accession |-> Head(fs).accession] >>
          ELSE <<>>) \o ResultLines(Tail(fs))

\* join_all as try_join_all would behave: ready at the first error.
JoinReadyTry(fs) ==
    \/ \A i \in DOMAIN fs : fs[i].pc = "done"
    \/ \E i \in DOMAIN fs : fs[i].result.state = "err"

\* join_all as a select would behave: ready as soon as one future has returned.
JoinReadyAny(fs) == fs = <<>> \/ \E i \in DOMAIN fs : fs[i].pc = "done"

\* join_all taken never to be ready for a chunk that holds a future.
JoinReadyNever(fs) == fs = <<>>

\* join_all taken to be ready when the first future of the chunk has returned.
JoinReadyFirst(fs) == fs = <<>> \/ fs[1].pc = "done"

\* main.rs:223: join_all is ready when every future of the chunk has returned.
JoinReady(fs) == \A i \in DOMAIN fs : fs[i].pc = "done"

Init ==
    /\ input \in InputLists
    /\ retry_times \in 0..MaxRetry
    /\ mpc = "start"
    /\ accessions = {}
    /\ accessions_vec = <<>>
    /\ windows = <<>>
    /\ futures = <<>>
    /\ files = <<>>
    /\ failed_writer = <<>>
    /\ diagnostics = <<>>

\* main.rs:177-199: the input is read and deduplicated, the report gets its header,
\* and the set is laid out in its iteration order.
ReadInput ==
    /\ mpc = "start"
    /\ accessions' = ReadAccessions(input)
    /\ failed_writer' = << <<"accession", "url">> >>
    /\ \E seed \in 1..MaxSeed : accessions_vec' = HashOrder(accessions', seed)
    /\ mpc' = "loop"
    /\ UNCHANGED <<input, retry_times, windows, futures, files, diagnostics>>

\* main.rs:202-223: the next chunk is taken and join_all polls each of its futures
\* once, in order.
LaunchWindow ==
    /\ mpc = "loop"
    /\ Len(windows) < Len(chunks(accessions_vec, ChunkWidth))
    /\ LET chunk == chunks(accessions_vec, ChunkWidth)[Len(windows) + 1]
       IN  /\ windows' = Append(windows, chunk)
           /\ futures' = [i \in DOMAIN chunk |-> StartPipeline(chunk[i], retry_times)]
    /\ mpc' = "join"
    /\ UNCHANGED <<input, retry_times, accessions, accessions_vec, files,
                   failed_writer, diagnostics>>

\* main.rs:30: the directory GET of pipeline i comes back.
ListSend(i) ==
    /\ mpc = "join"
    /\ futures[i].pc = "list_send"
    /\ \E r \in ListingResponses :
         futures' = [futures EXCEPT ![i] = ListingResponded(futures[i], r)]
    /\ UNCHANGED <<input, retry_times, mpc, accessions, accessions_vec, windows,
                   files, failed_writer, diagnostics>>

\* main.rs:37: the read of the directory page of pipeline i ends.
ListText(i) ==
    /\ mpc = "join"
    /\ futures[i].pc = "list_text"
    /\ \E readok \in BOOLEAN :
         futures' = [futures EXCEPT ![i] = ListingRead(futures[i], readok)]
    /\ UNCHANGED <<input, retry_times, mpc, accessions, accessions_vec, windows,
                   files, failed_writer, diagnostics>>

\* main.rs:72: a file GET of pipeline i comes back.
GetSend(i) ==
    /\ mpc = "join"
    /\ futures[i].pc = "get_send"
    /\ \E r \in ArtifactResponses(UrlOf(futures[i])) :
         futures' = [futures EXCEPT ![i] = GetResponded(futures[i], r)]
    /\ UNCHANGED <<input, retry_times, mpc, accessions, accessions_vec, windows,
                   files, failed_writer, diagnostics>>

\* main.rs:75-80: the read of the body of pipeline i ends, and on success the
\* bytes are written.
GetBytes(i) ==
    /\ mpc = "join"
    /\ futures[i].pc = "get_bytes"
    /\ \E readok \in BOOLEAN, written \in WriteOutcomes :
         /\ futures' = [futures EXCEPT ![i] = BodyRead(futures[i], readok, written)]
         /\ files' = IF readok
                     THEN fs_write(files, PathOf(futures[i].accession, futures[i].art),
                                   futures[i].resp.body, written)
                     ELSE files
    /\ UNCHANGED <<input, retry_times, mpc, accessions, accessions_vec, windows,
                   failed_writer, diagnostics>>

\* main.rs:223-240: join_all returns and the results are reported in chunk order.
CollectResults ==
    /\ mpc = "join"
    /\ JoinReady(futures)
    /\ failed_writer' = failed_writer \o FailureRows(futures)
    /\ diagnostics' = diagnostics \o ResultLines(futures)
    /\ futures' = <<>>
    /\ mpc' = "loop"
    /\ UNCHANGED <<input, retry_times, accessions, accessions_vec, windows, files>>

\* main.rs:242-244: no chunk is left.
Finish ==
    /\ mpc = "loop"
    /\ Len(windows) >= Len(chunks(accessions_vec, ChunkWidth))
    /\ mpc' = "done"
    /\ UNCHANGED <<input, retry_times, accessions, accessions_vec, windows, futures,
                   files, failed_writer, diagnostics>>

Next ==
    \/ ReadInput
    \/ LaunchWindow
    \/ \E i \in DOMAIN futures : ListSend(i)
    \/ \E i \in DOMAIN futures : ListText(i)
    \/ \E i \in DOMAIN futures : GetSend(i)
    \/ \E i \in DOMAIN futures : GetBytes(i)
    \/ CollectResults
    \/ Finish

Spec == Init /\ [][Next]_vars

\* The runs over the records of MarkerRecords.
InitMarker ==
    /\ input \in MarkerInputs
    /\ retry_times \in 0..MaxRetry
    /\ mpc = "start"
    /\ accessions = {}
    /\ accessions_vec = <<>>
    /\ windows = <<>>
    /\ futures = <<>>
    /\ files = <<>>
    /\ failed_writer = <<>>
    /\ diagnostics = <<>>

SpecMarker == InitMarker /\ [][Next]_vars

\* The runs over the first records of LiveRecords, in which every request and
\* every write comes back and main goes on whenever it can: a step that can be
\* taken is taken in the end.
LiveRecords ==
    << <<"A", "_", "1">>,
       <<"X">>,
       <<"Y">>,
       <<"Z">> >>

LiveInputs == { SubSeq(LiveRecords, 1, n) : n \in 0..Len(LiveRecords) }

InitLive ==
    /\ input \in LiveInputs
    /\ retry_times \in 0..MaxRetry
    /\ mpc = "start"
    /\ accessions = {}
    /\ accessions_vec = <<>>
    /\ windows = <<>>
    /\ futures = <<>>
    /\ files = <<>>
    /\ failed_writer = <<>>
    /\ diagnostics = <<>>

\* Every request and every write comes back (the four steps of a pipeline), and
\* main, which no one else schedules, takes its own steps.
Fairness ==
    /\ WF_vars(ReadInput)
    /\ WF_vars(LaunchWindow)
    /\ WF_vars(\E i \in DOMAIN futures : ListSend(i))
    /\ WF_vars(\E i \in DOMAIN futures : ListText(i))
    /\ WF_vars(\E i \in DOMAIN futures : GetSend(i))
    /\ WF_vars(\E i \in DOMAIN futures : GetBytes(i))
    /\ WF_vars(CollectResults)
    /\ WF_vars(Finish)

SpecLive == InitLive /\ [][Next]_vars /\ Fairness

\* The runs that look at resolution alone: one accession, any page of
\* ResolveListings, and the pipeline up to the end of fetch_full_filename.
InitResolve ==
    /\ input \in ResolveInputs
    /\ retry_times \in 1..MaxRetry
    /\ mpc = "start"
    /\ accessions = {}
    /\ accessions_vec = <<>>
    /\ windows = <<>>
    /\ futures = <<>>
    /\ files = <<>>
    /\ failed_writer = <<>>
    /\ diagnostics = <<>>

\* main.rs:30: the directory GET of pipeline i comes back, with any page.
ResolveSend(i) ==
    /\ mpc = "join"
    /\ futures[i].pc = "list_send"
    /\ \E r \in ResolveResponses :
         futures' = [futures EXCEPT ![i] = ListingResponded(futures[i], r)]
    /\ UNCHANGED <<input, retry_times, mpc, accessions, accessions_vec, windows,
                   files, failed_writer, diagnostics>>

NextResolve ==
    \/ ReadInput
    \/ LaunchWindow
    \/ \E i \in DOMAIN futures : ResolveSend(i)
    \/ \E i \in DOMAIN futures : ListText(i)

SpecResolve == InitResolve /\ [][NextResolve]_vars

\* The records of a run that is made a second time.
RerunRecords ==
    << <<"A", "_", "1">>,
       <<"B", "_", "2">>,
       <<"X">> >>

RerunInputs == { SubSeq(RerunRecords, 1, n) : n \in 1..Len(RerunRecords) }

\* The bytes the archive serves for file art of accession a, which the page
\* FullListing resolves.
ArchiveBytes(a, art) ==
    LET p == ParseAccession(a)
        name == clean_name(FullListing[FirstMatch(FullListing, p.db, p.number)])
    IN  Content(ArtifactUrl(base_url(p.db, p.number) \o <<"/">> \o name, name, art))

\* What a run adds to the directory fs for accession a when it writes the first k
\* files in full and, with cut, fails part-way in the write of the next one.
RECURSIVE LeftOf(_, _, _, _)
LeftOf(fs, a, k, cut) ==
    IF cut THEN fs_write(LeftOf(fs, a, k, FALSE), PathOf(a, k + 1),
                         ArchiveBytes(a, k + 1), "partial")
    ELSE IF k = 0 THEN fs
    ELSE fs_write(LeftOf(fs, a, k - 1, FALSE), PathOf(a, k), ArchiveBytes(a, k), "ok")

\* The accession whose pipeline succeeded in the first run.
Kept == RerunRecords[1]
\* The accession of which the first run left nothing, everything, or a first file
\* and a second one cut short.
Other == RerunRecords[2]

\* The directories the first run can have left for the input records.
LeftByFirstRun(records) ==
    LET kept == LeftOf(<<>>, Kept, NumArtifacts, FALSE)
    IN  IF Len(records) >= 2
        THEN {kept, LeftOf(kept, Other, NumArtifacts, FALSE), LeftOf(kept, Other, 1, TRUE)}
        ELSE {kept}

\* main.rs:167-179 and 195 when the program is run again on the same input: the
\* download directory exists (main.rs:173) and holds what the first run left, and
\* the failure report of that run is still there.
InitRerun ==
    /\ input \in RerunInputs
    /\ retry_times \in 0..MaxRetry
    /\ mpc = "start"
    /\ accessions = {}
    /\ accessions_vec = <<>>
    /\ windows = <<>>
    /\ futures = <<>>
    /\ files \in LeftByFirstRun(input)
    /\ failed_writer \in {<< <<"accession", "url">> >>,
                          << <<"accession", "url">>, <<Other, <<"Unknown URL">> >> >>}
    /\ diagnostics = <<>>

SpecRerun == InitRerun /\ [][Next]_vars

\* ------------------------------------------------------------------ claims

\* The futures with a request out: a GET sent, or its body being read.
InFlight == { i \in DOMAIN futures : futures[i].pc \in {"list_send", "list_text",
                                                        "get_send", "get_bytes"} }

\* The accessions whose pipeline has returned.
Finished ==
    { futures[i].accession : i \in { j \in DOMAIN futures : futures[j].pc = "done" } }
        \cup { diagnostics[i].accession : i \in DOMAIN diagnostics }

\* The number of pipelines that were started for accession a.
Launches(a) ==
    Cardinality({ w \in (DOMAIN windows) \X (1..ChunkWidth) :
                    w[2] \in DOMAIN windows[w[1]] /\ windows[w[1]][w[2]] = a })

\* C1: windows run one after the other: whenever a later window has been taken,
\* every pipeline of every earlier window has returned, and the only pipelines
\* that can have a request out are those of the latest window.
C1_WindowsSequential ==
    /\ \A k \in 1..(Len(windows) - 1) :
         \A j \in DOMAIN windows[k] : windows[k][j] \in Finished
    /\ futures /= <<>> =>
         /\ Len(windows) >= 1
         /\ Len(futures) = Len(windows[Len(windows)])
         /\ \A i \in DOMAIN futures : futures[i].accession = windows[Len(windows)][i]

\* A pipeline of the second window has its directory GET out, after a first
\* window that held a success and a failure.
C1_Witness ==
    /\ Len(windows) = 2
    /\ \E i \in DOMAIN futures : futures[i].pc = "list_send"
    /\ \E i \in DOMAIN diagnostics : diagnostics[i].stream = "stdout"
    /\ \E i \in DOMAIN diagnostics : diagnostics[i].stream = "stderr"

\* C2: at most 3 pipelines are driven at once, and at most 3 requests are out at
\* once, one per pipeline that has not returned.
C2_AtMostThree ==
    /\ Len(futures) <= 3
    /\ Cardinality({ i \in DOMAIN futures : futures[i].pc /= "done" }) <= 3
    /\ Cardinality(InFlight) <= 3
    /\ InFlight = { i \in DOMAIN futures : futures[i].pc /= "done" }

\* Three requests are out at once, one of them a file GET.
C2_Witness ==
    /\ Cardinality(InFlight) = 3
    /\ \E i \in InFlight : futures[i].pc = "get_send"
    /\ \E i \in InFlight : futures[i].pc = "list_send"

\* C3: a finished run over n distinct accessions has taken ceil(n/3) windows, each
\* of 3 accessions but the last, which holds the rest, and every accession is in
\* exactly one window.
C3_WindowCount ==
    mpc = "done" =>
        LET n == Cardinality(accessions) IN
        /\ Len(windows) = (n + 2) \div 3
        /\ \A k \in 1..(Len(windows) - 1) : Len(windows[k]) = 3
        /\ Len(windows) >= 1 => Len(windows[Len(windows)]) = n - 3 * (Len(windows) - 1)
        /\ \A a \in accessions : Launches(a) = 1

\* A finished run over 7 accessions: windows of 3, 3 and 1.
C3_Witness ==
    /\ mpc = "done"
    /\ Cardinality(accessions) = 7
    /\ Len(windows) = 3
    /\ Len(windows[1]) = 3 /\ Len(windows[2]) = 3 /\ Len(windows[3]) = 1

\* The number of lines main has printed for accession a.
Outcomes(a) ==
    Cardinality({ i \in DOMAIN diagnostics : diagnostics[i].accession = a })

Succeeded(a) ==
    \E i \in DOMAIN diagnostics :
        diagnostics[i].accession = a /\ diagnostics[i].stream = "stdout"

\* The rows of the failure report for accession a, the header apart.
RowsFor(a) ==
    Cardinality({ i \in 2..Len(failed_writer) : failed_writer[i][1] = a })

\* C4: a finished run has started exactly one pipeline for each distinct trimmed,
\* non-blank record of the input, and none for anything else.
C4_Deduplicated ==
    mpc = "done" =>
        /\ \A i \in DOMAIN input :
             trim(input[i]) /= <<>> => Launches(trim(input[i])) = 1
        /\ \A k \in DOMAIN windows : \A j \in DOMAIN windows[k] :
             /\ windows[k][j] /= <<>>
             /\ \E i \in DOMAIN input : windows[k][j] = trim(input[i])

\* A finished run over the records A_1, A_1, B_2: two pipelines.
C4_Witness ==
    /\ mpc = "done"
    /\ input = << <<"A", "_", "1">>, <<"A", "_", "1">>, <<"B", "_", "2">> >>
    /\ Len(windows) = 1
    /\ Len(windows[1]) = 2

\* Some action is enabled: main is not stuck, and while a window runs every future
\* of it has returned or has a request out.
CanStep ==
    \/ mpc \in {"start", "loop"}
    \/ /\ mpc = "join"
       /\ \A i \in DOMAIN futures : futures[i].pc = "done" \/ i \in InFlight
       /\ JoinReady(futures) \/ InFlight /= {}

AllReported ==
    \A a \in accessions : Launches(a) = 1 /\ Outcomes(a) = 1

\* C5: an error of one pipeline stops nothing.  A step in which one pipeline
\* returns an error leaves main and the other pipelines of the window as they
\* were; after every step the run is finished or can go on; and a finished run
\* has started every distinct accession once and printed one outcome for it.
C5_ErrorsDoNotAbort ==
    [][/\ \A i \in DOMAIN futures :
            (/\ mpc = "join" /\ mpc' = "join"
             /\ futures[i].result.state /= "err"
             /\ futures'[i].result.state = "err")
            => /\ windows' = windows
               /\ Len(futures') = Len(futures)
               /\ \A j \in DOMAIN futures : j /= i => futures'[j] = futures[j]
       /\ (mpc /= "done" => CanStep)'
       /\ (mpc = "done" => AllReported)']_vars

\* A finished run in which a pipeline of the first window failed beside one that
\* succeeded, and a pipeline of the second window succeeded after that.
C5_Witness ==
    /\ mpc = "done"
    /\ Len(windows) >= 2
    /\ \E i \in DOMAIN windows[1], j \in DOMAIN windows[1] :
         Succeeded(windows[1][i]) /\ RowsFor(windows[1][j]) = 1
    /\ \E i \in DOMAIN windows[2] : Succeeded(windows[2][i])
    /\ \E i \in DOMAIN windows[2] : RowsFor(windows[2][i]) = 1

\* C6: at the end of the run the failure report holds, after its header, one row
\* for each accession that failed and none for one that succeeded; an accession
\* succeeded exactly when its three files were written in full; rows and successes
\* add up to the number of distinct accessions.
C6_FailureReport ==
    mpc = "done" =>
        /\ failed_writer[1] = <<"accession", "url">>
        /\ \A a \in accessions :
             /\ RowsFor(a) = (IF Succeeded(a) THEN 0 ELSE 1)
             /\ Succeeded(a) <=>
                  \A art \in 1..NumArtifacts :
                     /\ PathOf(a, art) \in DOMAIN files
                     /\ files[PathOf(a, art)] /= <<>>
        /\ \A i \in 2..Len(failed_writer) : failed_writer[i][1] \in accessions
        /\ (Len(failed_writer) - 1) + Cardinality({ a \in accessions : Succeeded(a) })
              = Cardinality(accessions)

\* A finished run with failures that carry a URL, failures that carry none, and a
\* success.
C6_Witness ==
    /\ mpc = "done"
    /\ \E a \in accessions : Succeeded(a)
    /\ \E i \in 2..Len(failed_writer) : failed_writer[i][2] = <<"Unknown URL">>
    /\ \E i \in 2..Len(failed_writer) : failed_writer[i][2] /= <<"Unknown URL">>

\* future i takes a step of its own in this step of the run.
Steps(i) ==
    /\ mpc = "join" /\ mpc' = "join"
    /\ i \in DOMAIN futures /\ i \in DOMAIN futures'
    /\ futures'[i] /= futures[i]

\* files' is files with data under path and nothing else changed.
WrittenOnly(path, data) ==
    /\ DOMAIN files' = DOMAIN files \cup {path}
    /\ files'[path] = data
    /\ \A q \in DOMAIN files \ {path} : files'[q] = files[q]

\* The fetch of future i ends in success in this step: the body of the response
\* in hand is written to the destination, and the pipeline goes on to the first
\* GET of the next file or returns Ok.
FetchSucceeds(i) ==
    LET f == futures[i]
        g == futures'[i]
    IN  /\ WrittenOnly(PathOf(f.accession, f.art), f.resp.body)
        /\ f.resp.body = Content(UrlOf(f))
        /\ IF f.art < NumArtifacts
           THEN /\ g.pc = "get_send" /\ g.art = f.art + 1 /\ g.nget = 1
                /\ g.result = Pending
           ELSE g.pc = "done" /\ g.result = Success

\* The k-th GET of a fetch has brought a success status after k-1 failures, and k
\* is at most max_attempts.
KthSucceeded(i) ==
    /\ futures[i].pc = "get_bytes"
    /\ is_success(futures[i].resp.status)
    /\ futures[i].nget >= 1 /\ futures[i].nget <= futures[i].retry_count
    /\ futures[i].nfail = futures[i].nget - 1

\* C7 as stated: whenever the k-th GET has brought a success status after k-1
\* failures, the fetch reports success, writes that response's body and sends no
\* further GET for the URL.
C7_Original ==
    [][\A i \in DOMAIN futures :
          (Steps(i) /\ futures[i].pc = "get_bytes")
          => KthSucceeded(i) /\ FetchSucceeds(i)]_vars

\* C7, amended: the same, when the body of the k-th response is read and written
\* without error.
C7_SuccessOnKth ==
    [][\A i \in DOMAIN futures :
          (/\ Steps(i) /\ futures[i].pc = "get_bytes"
           /\ futures'[i].result.kind \notin {"read", "io"})
          => KthSucceeded(i) /\ FetchSucceeds(i)]_vars

\* With 3 attempts allowed, the third GET of the second file has brought a success
\* status after two failures, the first file being on disk.
C7_Witness ==
    \E i \in DOMAIN futures :
        /\ futures[i].pc = "get_bytes"
        /\ futures[i].retry_count = 3
        /\ futures[i].nget = 3 /\ futures[i].nfail = 2
        /\ futures[i].art = 2
        /\ PathOf(futures[i].accession, 1) \in DOMAIN files

\* The URL of the fetch that future f is in, or is about to enter when the
\* directory page is being read.
FetchUrl(f) ==
    IF f.pc = "list_text"
    THEN LET p == ParseAccession(f.accession)
             name == clean_name(f.resp.body[FirstMatch(f.resp.body, p.db, p.number)])
         IN  ArtifactUrl(base_url(p.db, p.number) \o <<"/">> \o name, name, 1)
    ELSE UrlOf(f)

\* C8: a fetch returns the retries-exhausted error only after exactly max_attempts
\* GETs of its URL, all failed; the error carries that URL; the step leaves the
\* files as they were, as does every step in which a GET fails.
C8_ExhaustedAfterM ==
    [][\A i \in DOMAIN futures :
          /\ (Steps(i) /\ futures'[i].result.kind = "exhausted")
             => LET f == futures[i] IN
                /\ f.nget = f.retry_count
                /\ f.retry_count = 0 => f.pc = "list_text"
                /\ f.retry_count > 0 =>
                      f.pc = "get_send" /\ f.nfail = f.retry_count - 1
                /\ futures'[i].result = RetriesExhausted(f.retry_count, FetchUrl(f))
                /\ failed_url(futures'[i].result) = FetchUrl(f)
                /\ files' = files
          /\ (Steps(i) /\ futures[i].pc = "get_send") => files' = files]_vars

\* A fetch has given up after 3 failed GETs.
C8_Witness ==
    \E i \in DOMAIN futures :
        /\ futures[i].result.kind = "exhausted"
        /\ futures[i].retry_count = 3

\* C9: the files are fetched in their fixed order and the first fetch that fails
\* ends the pipeline with its error: a pipeline goes on to the next file only by
\* writing the current one, the step in which a fetch fails returns the error of
\* that fetch, a pipeline that has returned does nothing more, and no file that is
\* on disk is ever changed or removed.
C9_FailFast ==
    [][/\ \A i \in DOMAIN futures :
            (Steps(i) /\ futures[i].pc \in {"get_send", "get_bytes"})
            => LET f == futures[i]
                   g == futures'[i]
               IN  /\ g.pc /= "done" => g.art \in {f.art, f.art + 1}
                   /\ (g.pc /= "done" /\ g.art = f.art + 1)
                        => /\ f.pc = "get_bytes"
                           /\ files'[PathOf(f.accession, f.art)] = f.resp.body
                   /\ g.pc = "done" =>
                        \/ g.result = Success /\ f.art = NumArtifacts
                                              /\ f.pc = "get_bytes"
                        \/ g.result = RetriesExhausted(f.retry_count, UrlOf(f))
                              /\ f.pc = "get_send"
                        \/ g.result \in {ReadBytesError, WriteFileError}
                              /\ f.pc = "get_bytes"
                   /\ \A a \in 1..(f.art - 1) :
                        /\ PathOf(f.accession, a) \in DOMAIN files
                        /\ files[PathOf(f.accession, a)]
                              = Content(ArtifactUrl(f.dir_url, f.full_name, a))
       /\ \A i \in DOMAIN futures :
            (mpc = "join" /\ mpc' = "join" /\ futures[i].pc = "done")
            => futures'[i] = futures[i]
       /\ \A q \in DOMAIN files : q \in DOMAIN files' /\ files'[q] = files[q]]_vars

\* The fetch of the third file has given up while the first two files are on disk.
C9_Witness ==
    \E i \in DOMAIN futures :
        /\ futures[i].result.kind = "exhausted"
        /\ PathOf(futures[i].accession, 1) \in DOMAIN files
        /\ PathOf(futures[i].accession, 2) \in DOMAIN files
        /\ PathOf(futures[i].accession, 3) \notin DOMAIN files

\* C10: a pipeline sends at most one directory GET, and never another once the
\* first has come back; a pipeline whose resolution fails has sent no file GET,
\* asks for no file afterwards and has written no file.
C10_ResolutionOnce ==
    [][\A i \in DOMAIN futures' :
          /\ futures'[i].lget <= 1
          /\ (mpc = "join" /\ mpc' = "join" /\ futures[i].pc /= "list_send")
               => futures'[i].pc /= "list_send"
          /\ Steps(i) => futures'[i].lget <= futures[i].lget
          /\ (Steps(i) /\ futures[i].pc = "list_send")
               => futures'[i].pc \in {"list_text", "done"}
          /\ futures'[i].result.kind \in ResolutionKinds
               => /\ futures'[i].pc = "done"
                  /\ \A a \in 1..NumArtifacts :
                        PathOf(futures'[i].accession, a) \notin DOMAIN files'
                  /\ Steps(i) => /\ futures[i].pc \in {"list_send", "list_text"}
                                 /\ futures[i].nget = 0 /\ futures[i].art = 0
                                 /\ files' = files]_vars

\* With 3 attempts allowed, a directory GET has come back with a failure status
\* and the pipeline has returned.
C10_Witness ==
    \E i \in DOMAIN futures :
        /\ futures[i].result.kind = "directory"
        /\ futures[i].retry_count = 3

\* accession holds no '_'.
NoUnderscore(accession) == IndexFrom(accession, "_", 1) = 0

\* C11: the pipeline of an accession without '_' has returned the malformed-
\* accession error from its first poll on: it never has a request out, it sent no
\* directory GET and no file GET, none of its files exists, and the row it gets in
\* the failure report carries the placeholder.
C11_MalformedNoNetwork ==
    /\ \A i \in DOMAIN futures :
         NoUnderscore(futures[i].accession)
         => /\ futures[i].pc = "done"
            /\ futures[i].result = InvalidAccession
            /\ futures[i].lget = 0 /\ futures[i].nget = 0
            /\ i \notin InFlight
    /\ \A a \in accessions :
         NoUnderscore(a)
         => /\ \A art \in 1..NumArtifacts : PathOf(a, art) \notin DOMAIN files
            /\ \A i \in 2..Len(failed_writer) :
                 failed_writer[i][1] = a => failed_writer[i][2] = <<"Unknown URL">>
            /\ ~Succeeded(a)

\* A window in which an accession without '_' has returned the malformed-accession
\* error while another pipeline of the window has a file GET out; an earlier
\* window has left a row for an accession without '_' in the report.
C11_Witness ==
    /\ \E i \in DOMAIN futures, j \in DOMAIN futures :
         /\ NoUnderscore(futures[i].accession)
         /\ futures[i].result = InvalidAccession
         /\ futures[j].pc = "get_send"
    /\ \E i \in 2..Len(failed_writer) :
         NoUnderscore(failed_writer[i][1]) /\ failed_writer[i][2] = <<"Unknown URL">>

\* The URL that the retries-exhausted error e of a fetch with retry_count attempts
\* was built with: what follows the first four pieces of the message.
ExhaustedUrl(e, retry_count) ==
    SubSeq(e.msg, Len(Display(retry_count)) + 4, Len(e.msg))

\* The row that main is to record for a returned future f that failed: the URL of
\* the fetch that gave up, or the placeholder when the error is of another kind.
RecordOf(f) ==
    <<f.accession,
      IF f.result.kind = "exhausted" THEN ExhaustedUrl(f.result, f.retry_count)
      ELSE <<"Unknown URL">> >>

RECURSIVE RecordsOf(_)
RecordsOf(fs) ==
    IF fs = <<>> THEN <<>>
    ELSE (IF Head(fs).result.state = "err" THEN <<RecordOf(Head(fs))>> ELSE <<>>)
            \o RecordsOf(Tail(fs))

\* C12: when a pipeline fails because the fetch of URL u has used up its
\* attempts, u is the URL of the first file that failed (the files before it are
\* on disk) and the error is the retries-exhausted error built with u; and when
\* main reports a window, the rows it adds are, in order, (accession, u) for each
\* pipeline that failed in that way and (accession, "Unknown URL") for each
\* pipeline that failed in another way.
C12_FailureUrl ==
    [][/\ \A i \in DOMAIN futures :
            (Steps(i) /\ futures'[i].result.kind = "exhausted")
            => LET f == futures[i]
                   g == futures'[i]
               IN  /\ g.result = RetriesExhausted(f.retry_count, FetchUrl(f))
                   /\ ExhaustedUrl(g.result, g.retry_count) = FetchUrl(f)
                   /\ \A a \in 1..(f.art - 1) :
                        PathOf(f.accession, a) \in DOMAIN files
       /\ (mpc = "join" /\ mpc' = "loop")
            => failed_writer' = failed_writer \o RecordsOf(futures)]_vars

\* The (accession, file) pairs of the run.
Targets == accessions \X (1..NumArtifacts)

\* C13: distinct (accession, file) pairs have distinct paths, the pipelines of a
\* window are for distinct accessions, and every step that changes the download
\* directory is the one write of one fetch to its own path, which no step of the
\* run has written before; every other path is left as it was.
C13_NoPathTwice ==
    [][/\ accessions' /= accessions
            => \A t \in Targets', u \in Targets' :
                 t /= u => PathOf(t[1], t[2]) /= PathOf(u[1], u[2])
       /\ \A i \in DOMAIN futures', j \in DOMAIN futures' :
            i /= j => futures'[i].accession /= futures'[j].accession
       /\ files' /= files
            => \E i \in DOMAIN futures :
                 LET path == PathOf(futures[i].accession, futures[i].art)
                 IN  /\ Steps(i) /\ futures[i].pc = "get_bytes"
                     /\ path \notin DOMAIN files
                     /\ DOMAIN files' = DOMAIN files \cup {path}
                     /\ \A q \in DOMAIN files : files'[q] = files[q]
                     /\ \A j \in DOMAIN futures : j /= i => futures'[j] = futures[j]]_vars

\* Two pipelines of one window have written their first file each, and one of them
\* is about to write its second file after a GET of that file had failed.
C13_Witness ==
    \E i \in DOMAIN futures, j \in DOMAIN futures :
        /\ i /= j
        /\ futures[i].pc = "get_bytes" /\ futures[i].art = 2 /\ futures[i].nfail >= 1
        /\ futures[j].art = 2
        /\ PathOf(futures[i].accession, 1) \in DOMAIN files
        /\ PathOf(futures[j].accession, 1) \in DOMAIN files
        /\ PathOf(futures[i].accession, 2) \notin DOMAIN files

\* The files of the accession that succeeded in the first run hold the bytes that
\* run left.
KeptIntact ==
    \A art \in 1..NumArtifacts :
        /\ PathOf(Kept, art) \in DOMAIN files
        /\ files[PathOf(Kept, art)] = ArchiveBytes(Kept, art)

C15_Original ==
    \A i \in DOMAIN futures :
        futures[i].pc = "done" => Outcomes(futures[i].accession) = 1

\* C15, amended: the lines of a window are printed together, after the last of its
\* pipelines has returned.  While a window runs no line of any of its accessions
\* has been printed, and the lines change only in the step in which main takes
\* the results of a window all of whose pipelines have returned, which adds one
\* line for each of them, in chunk order.
C15_AfterWindow ==
    [][/\ \A i \in DOMAIN futures' : Outcomes(futures[i].accession)' = 0
       /\ diagnostics' /= diagnostics
            => /\ mpc = "join" /\ mpc' = "loop"
               /\ \A i \in DOMAIN futures : futures[i].pc = "done"
               /\ Len(diagnostics') = Len(diagnostics) + Len(futures)
               /\ \A i \in DOMAIN futures :
                    LET line == diagnostics'[Len(diagnostics) + i]
                    IN  /\ line.accession = futures[i].accession
                        /\ line.stream = (IF futures[i].result.state = "ok"
                                          THEN "stdout" ELSE "stderr")
               /\ SubSeq(diagnostics', 1, Len(diagnostics)) = diagnostics]_vars

\* In the second window one pipeline has returned while another still has a file
\* GET out; the only lines printed are those of the first window, in which one
\* pipeline succeeded and another failed.
C15_Witness ==
    /\ Len(windows) = 2
    /\ Len(diagnostics) = Len(windows[1])
    /\ \E i \in DOMAIN diagnostics : diagnostics[i].stream = "stdout"
    /\ \E i \in DOMAIN diagnostics : diagnostics[i].stream = "stderr"
    /\ \E i \in DOMAIN futures, k \in DOMAIN futures :
         /\ futures[i].pc = "done"
         /\ futures[k].pc = "get_send"
         /\ Outcomes(futures[i].accession) = 0

\* entry with one '/' at its end taken off.
Stripped(entry) ==
    IF entry /= <<>> /\ entry[Len(entry)] = "/"
    THEN SubSeq(entry, 1, Len(entry) - 1)
    ELSE entry

\* The second of the fields that the '_' characters cut name into, when name
\* holds a '_': what stands between the first '_' and the next one, or the end.
SecondField(name) ==
    LET rest == SubSeq(name, IndexFrom(name, "_", 1) + 1, Len(name))
        u == IndexFrom(rest, "_", 1)
    IN  IF u = 0 THEN rest ELSE SubSeq(rest, 1, u - 1)

\* The entry is one that resolution may return for db and number.
Eligible(entry, db, number) ==
    /\ starts_with(Stripped(entry), db)
    /\ IndexFrom(Stripped(entry), "_", 1) > 0
    /\ starts_with(SecondField(Stripped(entry)), number)

\* accession with whatever follows the first '.' after its first '_' taken off.
Unversioned(accession) ==
    LET t == trim(accession)
        u == IndexFrom(t, "_", 1)
        d == IndexFrom(SubSeq(t, u + 1, Len(t)), ".", 1)
    IN  IF d = 0 THEN t ELSE SubSeq(t, 1, u + d - 1)

\* C16: when the directory page has been read, resolution takes the first entry
\* of the page that is eligible for the db and the number of the accession: no
\* entry before it is eligible, the name returned is that entry without one '/'
\* at its end, the URL returned is base_url, "/" and the name, and the outcome is
\* the one the accession without its version would give.  When no entry is
\* eligible the pipeline returns the no-match error, and when the directory GET
\* comes back with a failure status it returns the directory-unavailable error,
\* which is another error with another text.
C16_FirstMatch ==
    [][\A i \in DOMAIN futures :
          LET f == futures[i]
              g == futures'[i]
              p == ParseAccession(f.accession)
              q == ParseAccession(Unversioned(f.accession))
              page == f.resp.body
              hits == { k \in DOMAIN page : Eligible(page[k], p.db, p.number) }
          IN  /\ (Steps(i) /\ f.pc = "list_text" /\ g.result.kind /= "decode")
                  => /\ q.db = p.db /\ q.number = p.number
                     /\ hits = {} <=> g.result.kind = "nomatch"
                     /\ hits = {} => g.result = NoMatch(f.accession)
                     /\ hits /= {} =>
                          \E k \in hits :
                             /\ \A j \in 1..(k - 1) : j \notin hits
                             /\ g.full_name = Stripped(page[k])
                             /\ g.dir_url = base_url(p.db, p.number) \o <<"/">>
                                               \o Stripped(page[k])
                             /\ g.result = Pending
              /\ (Steps(i) /\ f.pc = "list_send" /\ g.pc = "done"
                           /\ g.result.kind /= "send")
                  => /\ g.result.kind = "directory"
                     /\ g.result = DirectoryUnavailable(404)
                     /\ g.result.msg[1] /= NoMatch(f.accession).msg[1]]_vars

\* For the accession A_1.2 a page has been read whose first entry is not eligible
\* and whose second and third entries both are, the third being the one of
\* version 2; the second was taken.
C16_Witness ==
    \E i \in DOMAIN futures :
        /\ futures[i].accession = <<"A", "_", "1", ".", "2">>
        /\ futures[i].pc = "get_send"
        /\ futures[i].full_name = <<"A", "_", "1", "2", ".", "1", "_", "w">>
        /\ futures[i].dir_url =
              <<ArchiveRoot, "A", "/", "1", "/",
                "A", "_", "1", "2", ".", "1", "_", "w">>

\* The characters of number with a '/' put after every third one that is not the
\* last: place 4, 8, ... of the path holds a '/', the other places hold the
\* characters of number in their order.
Sharded(number) ==
    LET n == Len(number)
        m == IF n = 0 THEN 0 ELSE n + ((n - 1) \div 3)
    IN  [k \in 1..m |-> IF k % 4 = 0 THEN "/" ELSE number[k - (k \div 4)]]

\* s without its '/' characters.
RECURSIVE WithoutSlashes(_)
WithoutSlashes(s) ==
    IF s = <<>> THEN <<>>
    ELSE (IF Head(s) = "/" THEN <<>> ELSE <<Head(s)>>) \o WithoutSlashes(Tail(s))

\* C17: the path that resolution builds from the number of an accession is the
\* number cut from the left into groups of 3 characters, the last group of 1 to 3,
\* with '/' between the groups: 12345 gives 123/45 and 123456 gives 123/456;
\* the path without its '/' characters is the number; and the directory GET of
\* the accession is sent to the archive root, the db, '/' and that path.
C17_ShardedPath ==
    /\ number_path(<<"1", "2", "3", "4", "5">>) = <<"1", "2", "3", "/", "4", "5">>
    /\ number_path(<<"1", "2", "3", "4", "5", "6">>)
          = <<"1", "2", "3", "/", "4", "5", "6">>
    /\ \A a \in accessions :
         LET p == ParseAccession(a)
             groups == split(number_path(p.number), "/")
         IN  p.ok =>
               /\ number_path(p.number) = Sharded(p.number)
               /\ WithoutSlashes(number_path(p.number)) = p.number
               /\ \A k \in 1..(Len(groups) - 1) : Len(groups[k]) = 3
               /\ Len(groups[Len(groups)]) <= 3
               /\ p.number /= <<>> => Len(groups[Len(groups)]) >= 1
               /\ Len(groups) = (IF p.number = <<>> THEN 1
                                 ELSE (Len(p.number) + 2) \div 3)
    /\ \A i \in DOMAIN futures :
         LET p == ParseAccession(futures[i].accession)
         IN  futures[i].result.kind = "send"
             => futures[i].result.msg =
                  <<"error sending request for url (", ArchiveRoot>> \o p.db
                     \o <<"/">> \o Sharded(p.number) \o <<")">>

\* The directory GET for the accession N_12345 has failed to be sent, and the
\* error names the URL that ends in N/123/45.
C17_Witness ==
    \E i \in DOMAIN futures :
        /\ futures[i].accession = <<"N", "_", "1", "2", "3", "4", "5">>
        /\ futures[i].result.kind = "send"
        /\ futures[i].result.msg =
              <<"error sending request for url (", ArchiveRoot,
                "N", "/", "1", "2", "3", "/", "4", "5", ")">>

\* The step of future i that ends the read of a body leaves the destination of
\* the fetch without the body: the file is missing or is not the body.
NotWritten(i) ==
    LET path == PathOf(futures[i].accession, futures[i].art)
    IN  path \notin DOMAIN files' \/ files'[path] /= futures[i].resp.body

\* C18: when the write of a body that has been read fails, the fetch ends there,
\* whatever attempts are left: the pipeline returns the write error in that step,
\* sends no GET afterwards (a pipeline that has returned takes no further step),
\* and the error differs from the retries-exhausted error in its text and in the
\* report, where it leaves the placeholder instead of a URL.
C18_WriteErrorFatal ==
    [][\A i \in DOMAIN futures :
          LET f == futures[i]
              g == futures'[i]
          IN  /\ (/\ Steps(i) /\ f.pc = "get_bytes"
                   /\ g.result /= ReadBytesError /\ NotWritten(i))
                  => /\ f.attempts >= 1
                     /\ g.pc = "done"
                     /\ g.result = WriteFileError
                     /\ g.result.kind /= "exhausted"
                     /\ g.result.msg
                          /= RetriesExhausted(f.retry_count, UrlOf(f)).msg
                     /\ failed_url(g.result) = <<"Unknown URL">>
                     /\ failed_url(RetriesExhausted(f.retry_count, UrlOf(f)))
                          = UrlOf(f)
              /\ (mpc = "join" /\ mpc' = "join" /\ f.pc = "done") => g = f]_vars

\* With 3 attempts allowed, the write of the second file has failed after the
\* file was truncated, and the pipeline has returned the write error.
C18_Witness ==
    \E i \in DOMAIN futures :
        /\ futures[i].result = WriteFileError
        /\ futures[i].retry_count = 3
        /\ PathOf(futures[i].accession, 1) \in DOMAIN files
        /\ PathOf(futures[i].accession, 2) \in DOMAIN files
        /\ files[PathOf(futures[i].accession, 2)] = <<>>
        /\ PathOf(futures[i].accession, 3) \notin DOMAIN files

\* C20: when the read of the body of a response with a success status fails, the
\* fetch ends there, whatever attempts are left: the pipeline returns the read
\* error in that step, no file is touched, the error is not the retries-exhausted
\* error, and the row that main writes for the accession carries the placeholder
\* and not the URL of the fetch.
C20_ReadErrorFatal ==
    [][/\ \A i \in DOMAIN futures :
            LET f == futures[i]
                g == futures'[i]
            IN  (/\ Steps(i) /\ f.pc = "get_bytes"
                 /\ g.result /= WriteFileError /\ files' = files)
                => /\ is_success(f.resp.status)
                   /\ f.attempts >= 1
                   /\ g.pc = "done"
                   /\ g.result = ReadBytesError
                   /\ g.result.kind /= "exhausted"
                   /\ failed_url(g.result) = <<"Unknown URL">>
                   /\ failed_url(g.result) /= UrlOf(f)
       /\ (mpc = "join" /\ mpc' = "loop")
            => \A i \in DOMAIN futures :
                 futures[i].result.kind = "read"
                 => \E k \in (Len(failed_writer) + 1)..Len(failed_writer') :
                      failed_writer'[k] = <<futures[i].accession, <<"Unknown URL">> >>]_vars

\* With 3 attempts allowed, the read of the body of the first file has failed and
\* the pipeline has returned the read error; no file of the accession exists.
C20_Witness ==
    \E i \in DOMAIN futures :
        /\ futures[i].result = ReadBytesError
        /\ futures[i].retry_count = 3
        /\ \A art \in 1..NumArtifacts :
             PathOf(futures[i].accession, art) \notin DOMAIN files

\* The number of chunks the loop of main is to take.
NumWindows == Len(chunks(accessions_vec, ChunkWidth))

\* C19: every run ends.  No pipeline sends more than one directory GET, fetches
\* more than three files or sends more than retry_count GETs for one file, which
\* is at most 1 + 3 x retry_count GETs; a GET is counted whenever one is sent;
\* every window that is started is completed; and main ends after it has taken
\* the last window.
C19_Terminates ==
    /\ [](\A i \in DOMAIN futures :
            /\ futures[i].lget <= 1
            /\ futures[i].art <= NumArtifacts
            /\ futures[i].nget <= futures[i].retry_count
            /\ futures[i].lget + futures[i].nget
                  + (IF futures[i].art > 1
                     THEN (futures[i].art - 1) * futures[i].retry_count ELSE 0)
                 <= 1 + 3 * futures[i].retry_count)
    /\ [][\A i \in DOMAIN futures :
            (Steps(i) /\ futures'[i].pc = "get_send")
            => \/ /\ futures'[i].art = futures[i].art
                  /\ futures'[i].nget = futures[i].nget + 1
               \/ /\ futures'[i].art = futures[i].art + 1
                  /\ futures'[i].nget = 1]_vars
    /\ \A k \in 1..Len(LiveRecords) :
         (mpc = "join" /\ Len(windows) = k) ~> (mpc = "loop" /\ Len(windows) = k)
    /\ <>[](mpc = "done" /\ futures = <<>> /\ Len(windows) = NumWindows)

\* With 3 attempts allowed, a run over four accessions has ended after two
\* windows, one of its fetches having used up its attempts.
C19_Witness ==
    /\ mpc = "done"
    /\ retry_times = 3
    /\ Len(windows) = 2
    /\ Len(failed_writer) = 1 + Cardinality(accessions)
    /\ \E i \in 2..Len(failed_writer) : failed_writer[i][2] /= <<"Unknown URL">>

====
